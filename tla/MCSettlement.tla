------------------------------ MODULE MCSettlement ----------------------------
(* Small bundles for Settlement. *)
EXTENDS Settlement

CONSTANT none

RowAt(t, score, found) == [id |-> t, tuple |-> t, score |-> score, candidate |-> found]

Plain == [scheme |-> "PPLNS", factor |-> 3, page |-> 2, percent |-> 0,
          policyPercent |-> 0, gross |-> 8, reward |-> 7,
          deductions |-> {[to |-> 1, amount |-> 1]}, finder |-> none, rows |-> {}]

\* Up to four shares of any score up to 3, any target up to 5, pages of 1 to 3.
Windows ==
  UNION {{[Plain EXCEPT !.rows = {RowAt(t, f[t], FALSE) : t \in 1..k},
                        !.factor = n, !.page = p] :
            f \in [1..k -> 1..3], n \in 1..5, p \in 1..3} : k \in 0..4}

\* PPLNSBF with the finder inside or outside the window, linked or not.
Finders ==
  {[Plain EXCEPT !.scheme = "PPLNSBF", !.finder = w, !.percent = p,
                 !.policyPercent = 30, !.factor = n,
                 !.gross = g + 1, !.reward = g,
                 !.rows = {RowAt(t, f[t], t \in c) : t \in 1..3}] :
     w \in {none, 1, 3}, p \in {0, 30}, n \in {1, 2, 4}, g \in {1, 5, 7},
     f \in [1..3 -> 1..2], c \in {{}, {1}, {3}, {1, 3}}}

\* PROP, whose rows may share a key, as the two halves of one event do.
Props ==
  {[Plain EXCEPT !.scheme = s, !.gross = g, !.finder = w,
                 !.rows = {RowAt(t, f[t], FALSE) : t \in 1..2}
                    \union {[RowAt(i, 2, FALSE) EXCEPT !.tuple = k]}] :
     s \in {"PROP", "PPLNS"}, g \in {7, 8}, w \in {none, 1},
     f \in [1..2 -> 1..3], i \in 2..3, k \in 2..3}

AllBundles == Windows \union Finders \union Props
===============================================================================
